---- MODULE Spec2Model ----
(***************************************************************************)
(* Model of the file server of src/src/quinn-server.rs (main,              *)
(* handle_connection, handle_request), of the client of                    *)
(* src/src/quinn-client.rs (its request line and the calls of its main)    *)
(* and of the peer list of the mesh node of src/src/qp2p.rs.               *)
(*                                                                         *)
(* Bytes are one-token strings.  A byte string is a sequence of bytes.  A  *)
(* file-system path is a sequence of names, a name a sequence of bytes.    *)
(* File contents are symbolic: byte i of file f is the pair (f, i), so a   *)
(* run of file bytes is a record [file, lo, hi] standing for bytes         *)
(* lo .. hi-1 of that file.                                                *)
(***************************************************************************)
EXTENDS Integers, Sequences, FiniteSets, Bags, TLC

\* ------------------------------------------------------------------ bounds
MaxBodyLen == 5
MaxFrameBody == 1
MaxConns == 2
MaxStreams == 2
Several == 3
MaxPeers == 2
MaxPeerList == 3

\* ------------------------------------------------------------------- bytes
SP == " "
CR == "\r"
LF == "\n"
SLASH == "/"
DOT == "."
BADBYTE == "0xFF"

GET == <<"G", "E", "T", SP>>
CRLF == <<CR, LF>>
HTTP3 == <<"H", "T", "T", "P", "/", "3">>

\* b"HTTP/3 404 NotFound\r\n"
NotFoundLine == HTTP3 \o <<SP, "4", "0", "4", SP, "N", "o", "t", "F", "o", "u", "n", "d">> \o CRLF

\* const SIZE: usize = 1024 * 100
SIZE == 1024 * 100

\* read_to_end(64 * 1024)
ReadLimit == 64 * 1024

\* ------------------------------------------------------- sequence helpers
\* x.iter().position(|&c| c == b).unwrap_or_else(|| x.len()), 0-based
Position(x, b) ==
  IF \E i \in 1..Len(x) : x[i] = b
  THEN (CHOOSE i \in 1..Len(x) : x[i] = b /\ \A j \in 1..(i - 1) : x[j] # b) - 1
  ELSE Len(x)

\* str::from_utf8 succeeds: every byte modelled is ASCII except BADBYTE
ValidUtf8(x) == \A i \in 1..Len(x) : x[i] # BADBYTE

\* ---------------------------------------------------------- request parser
\* The synchronous code between read_to_end and Path::new.
ParseBadPrefix(x) == Len(x) < 3 \/ SubSeq(x, 1, 3) # SubSeq(GET, 1, 3)

MissingGET(x) == Len(x) < 4 \/ SubSeq(x, 1, 4) # GET

MissingCRLF(x) == Len(x) - 4 < 2 \/ SubSeq(x, Len(x) - 1, Len(x)) # CRLF

\* &x[4..x.len() - 2]
PathRegion(x) == SubSeq(x, 5, Len(x) - 2)

PathBytesWhole(region) == region

\* &x[..end] with end the first space
PathBytes(region) == SubSeq(region, 1, Position(region, SP))

ParseRequestStrict(x) ==
  IF MissingGET(x) THEN [err |-> "missing GET", x |-> x, path |-> <<>>]
  ELSE IF MissingCRLF(x) \/ Position(PathRegion(x), SP) # Len(PathRegion(x))
       THEN [err |-> "missing \\r\\n", x |-> x, path |-> <<>>]
  ELSE IF ~ValidUtf8(PathBytes(PathRegion(x)))
       THEN [err |-> "Utf8Error", x |-> PathRegion(x), path |-> <<>>]
       ELSE [err |-> "none", x |-> PathRegion(x), path |-> PathBytes(PathRegion(x))]

ParseRequest(x) ==
  IF MissingGET(x) THEN [err |-> "missing GET", x |-> x, path |-> <<>>]
  ELSE IF MissingCRLF(x) THEN [err |-> "missing \\r\\n", x |-> x, path |-> <<>>]
  ELSE IF ~ValidUtf8(PathBytes(PathRegion(x)))
       THEN [err |-> "Utf8Error", x |-> PathRegion(x), path |-> <<>>]
       ELSE [err |-> "none", x |-> PathRegion(x), path |-> PathBytes(PathRegion(x))]

\* ----------------------------------------------------------- path resolver
\* std::path::Path::components on a Unix path
RECURSIVE Segments(_)
Segments(p) ==
  LET n == Position(p, SLASH)
  IN IF n = Len(p) THEN <<p>>
     ELSE <<SubSeq(p, 1, n)>> \o Segments(SubSeq(p, n + 2, Len(p)))

HasRoot(p) == Len(p) > 0 /\ p[1] = SLASH

ComponentKeepsCurDir(seg, first) ==
  IF seg = <<>> THEN <<>>
  ELSE IF seg = <<DOT>> THEN <<[kind |-> "CurDir", name |-> seg]>>
  ELSE IF seg = <<DOT, DOT>> THEN <<[kind |-> "ParentDir", name |-> seg]>>
  ELSE <<[kind |-> "Normal", name |-> seg]>>

\* one segment between "/"s: empty segments vanish, and so does "." unless it is
\* the first segment of a relative path
Component(seg, first) ==
  IF seg = <<>> THEN <<>>
  ELSE IF seg = <<DOT>> THEN (IF first THEN <<[kind |-> "CurDir", name |-> seg]>> ELSE <<>>)
  ELSE IF seg = <<DOT, DOT>> THEN <<[kind |-> "ParentDir", name |-> seg]>>
  ELSE <<[kind |-> "Normal", name |-> seg]>>

RECURSIVE ComponentsOf(_, _)
ComponentsOf(segs, first) ==
  IF segs = <<>> THEN <<>>
  ELSE Component(Head(segs), first) \o ComponentsOf(Tail(segs), FALSE)

Components(p) ==
  IF HasRoot(p)
  THEN <<[kind |-> "RootDir", name |-> <<SLASH>>]>> \o ComponentsOf(Segments(Tail(p)), FALSE)
  ELSE ComponentsOf(Segments(p), TRUE)

\* the served root: /srv
Root == << <<"s", "r", "v">> >>

PushReplacing(real_path, c) == <<c.name>>

\* real_path.push(x) for a Normal component x
Push(real_path, c) == Append(real_path, c.name)

IllegalComponentLax(c) == FALSE

\* the match arm `x => panic!("illegal component in path: {:?}", x)`
IllegalComponent(c) == c.kind # "Normal"

NotAbsoluteLax(comps) == comps = <<>>

\* match components.next() { Some(RootDir) => {}, _ => panic!(...) }
NotAbsolute(comps) == comps = <<>> \/ comps[1].kind # "RootDir"

RECURSIVE PushAll(_, _)
PushAll(real_path, comps) ==
  IF comps = <<>> THEN real_path
  ELSE PushAll(Push(real_path, Head(comps)), Tail(comps))

ResolvePath(root, path) ==
  LET comps == Components(path)
  IN IF NotAbsolute(comps) THEN [err |-> "path must be absolute", real_path |-> <<>>]
     ELSE IF \E i \in 2..Len(comps) : IllegalComponent(comps[i])
          THEN [err |-> "illegal component in path", real_path |-> <<>>]
          ELSE [err |-> "none", real_path |-> PushAll(root, Tail(comps))]

\* -------------------------------------------------------------- file system
\* The files under the served root: lengths 0, 1, one chunk, several chunks + 1.
FileEmpty == Append(Root, <<"a">>)
FileOne == Append(Root, <<"a", "a">>)
FileChunk == Append(Root, <<"a", DOT, "a">>)
FileSeveral == Append(Root, <<DOT, "a">>)

Files == {FileEmpty, FileOne, FileChunk, FileSeveral}

FileLength(f) ==
  CASE f = FileEmpty -> 0
    [] f = FileOne -> 1
    [] f = FileChunk -> SIZE
    [] f = FileSeveral -> Several * SIZE + 1
    [] OTHER -> 0

\* what tokio::fs::File::open finds at a path: a file, a directory (the open
\* succeeds, every read fails) or nothing it can open
Lookup(p) == IF p \in Files THEN "file" ELSE IF p = Root THEN "dir" ELSE "absent"

\* ------------------------------------------------------------ stream output
\* What a handler did on the write side of its stream, in order: runs of bytes
\* ("line": bytes lo..hi-1 of NotFoundLine, "file": bytes lo..hi-1 of a file)
\* and finish events.  Adjacent runs are merged, so the log is a normal form
\* of the byte string written.
LineRun(lo, hi) == [kind |-> "line", file |-> <<>>, lo |-> lo, hi |-> hi]
FileRun(f, lo, hi) == [kind |-> "file", file |-> f, lo |-> lo, hi |-> hi]
FinishEvent == [kind |-> "finish", file |-> <<>>, lo |-> 0, hi |-> 0]

Emit(log, run) ==
  IF run.lo >= run.hi THEN log
  ELSE IF log # <<>> /\ log[Len(log)].kind = run.kind /\ log[Len(log)].file = run.file
          /\ log[Len(log)].hi = run.lo
       THEN [log EXCEPT ![Len(log)].hi = run.hi]
       ELSE Append(log, run)

WriteOnce(log, line) == Emit(log, LineRun(0, Len(line) \div 2))

\* write_all(line) returning Ok: every byte of the line went out
WriteAll(log, line) == Emit(log, LineRun(0, Len(line)))

\* ------------------------------------------------------------------- state
VARIABLES
  root,       \* the Arc<Path> main hands to every task
  mainPc,     \* main's accept loop: "Accepting" or "Exited"
  connTask,   \* the handle_connection tasks, by connection
  handlers,   \* the handle_request tasks: a bag of their states (tasks have no name)
  client,     \* quinn-client.rs: main's position and what it did on its connection
  mesh        \* qp2p.rs: the shared peer list, its tasks and the peers

vars == <<root, mainPc, connTask, handlers, client, mesh>>

\* no client program runs
NoClient == [pc |-> "NotStarted"]

\* no peer-mesh node runs
NoMesh == [pc |-> "NotStarted"]

Conns == 1..MaxConns

NoFile == <<>>
NoRun == FileRun(<<>>, 0, 0)

\* the locals of handle_request when the task is spawned, and what it did so far
\* (opens: the paths given to File::open; read_error: a read of the file failed
\* with an I/O error; log: the write side of its stream)
NewHandler ==
  [pc |-> "ReadingRequest", req |-> <<>>, x |-> <<>>, path |-> <<>>,
   real_path |-> <<>>, opens |-> <<>>, file |-> NoFile, kind |-> "none", pos |-> 0,
   buf |-> NoRun, read_error |-> FALSE, log |-> <<>>, panic |-> "none"]

\* the locals a task drops when it returns or unwinds: the file, the reader, the buffer
Drop(h) == [h EXCEPT !.file = NoFile, !.kind = "none", !.pos = 0, !.buf = NoRun]

Tasks == BagToSet(handlers)

Running == mainPc = "Accepting"

\* a task in state h exists and the process is alive
Live(h) == Running /\ BagIn(h, handlers)

Replace(h, g) == (handlers (-) SetToBag({h})) (+) SetToBag({g})

PanicAbortsProcess(h, msg) ==
  [task |-> [Drop(h) EXCEPT !.pc = "Panicked", !.panic = msg], main |-> "Exited"]

\* a panic inside a task spawned with tokio::spawn unwinds that task only
Panic(h, msg) == [task |-> [Drop(h) EXCEPT !.pc = "Panicked", !.panic = msg], main |-> mainPc]

\* the task in state h goes on in state g
Step(h, g) ==
  /\ handlers' = Replace(h, g)
  /\ UNCHANGED <<root, mainPc, connTask, client, mesh>>

FailFinishing(h, g, msg) ==
  /\ handlers' = Replace(h, Panic([g EXCEPT !.log = Append(@, FinishEvent)], msg).task)
  /\ mainPc' = Panic(g, msg).main
  /\ UNCHANGED <<root, connTask, client, mesh>>

FailAborts(h, g, msg) ==
  /\ handlers' = Replace(h, Panic(g, msg).task)
  /\ mainPc' = "Exited"
  /\ UNCHANGED <<root, connTask, client, mesh>>

\* the task in state h, its locals now those of g, panics
Fail(h, g, msg) ==
  /\ handlers' = Replace(h, Panic(g, msg).task)
  /\ mainPc' = Panic(g, msg).main
  /\ UNCHANGED <<root, connTask, client, mesh>>

\* ----------------------------------------------------------------- inputs
\* byte strings of length at most n over a set of bytes
RECURSIVE Strings(_, _)
Strings(bytes, n) ==
  IF n = 0 THEN {<<>>}
  ELSE LET shorter == Strings(bytes, n - 1)
       IN shorter \cup {Append(x, b) : x \in {y \in shorter : Len(y) = n - 1}, b \in bytes}

PathAlphabet == {SLASH, DOT, "a"}
BodyAlphabet == PathAlphabet \cup {SP, BADBYTE}

Bodies == Strings(BodyAlphabet, MaxBodyLen)

\* framings around a short body: good and bad prefixes, good and bad terminators
Prefixes == {GET, <<"G", "E", "T">>, <<"P", "U", "T", SP>>, <<>>}
Suffixes == {CRLF, <<LF>>, <<CR>>, <<>>}

Framings ==
  {pre \o b \o suf : pre \in Prefixes, b \in Strings({SLASH, "a"}, MaxFrameBody), suf \in Suffixes}

\* format!("GET {} HTTP/3\r\n", url.path()) of quinn-client.rs
ClientRequest(url_path) == GET \o url_path \o <<SP>> \o HTTP3 \o CRLF

\* url.path() of a parsed URL: starts with "/", has no space and no dot segment
UrlPaths ==
  {u \in Strings(PathAlphabet, MaxBodyLen) :
     /\ HasRoot(u)
     /\ \A i \in 1..Len(Components(u)) : Components(u)[i].kind \in {"RootDir", "Normal"}
     /\ \A i \in 1..Len(Segments(u)) : Segments(u)[i] # <<DOT>>}

\* every request a peer sends on the stream of the single-request specification
Requests == {GET \o b \o CRLF : b \in Bodies} \cup Framings \cup {ClientRequest(u) : u \in UrlPaths}

\* the requests peers send in the concurrent specification
ConcurrentRequests ==
  {GET \o <<SLASH, "a", "a">> \o CRLF,
   GET \o <<SLASH, "a", DOT, "a">> \o CRLF,
   GET \o <<SLASH, "a", SLASH, "a">> \o CRLF,
   GET \o <<SLASH, DOT, DOT>> \o CRLF,
   <<"G", "E", "T">> \o CRLF}

\* how many bytes one call of SendStream::write may accept of a buffer of len bytes
WriteCounts(len) == {n \in {len, len \div 2} : n >= 1 \/ len = 0}

\* how many bytes write_all may have written when it fails
FailedWriteCounts(len) == {0, len \div 2}

\* ------------------------------------------------- handle_request, by await
\* recv.read_to_end(64 * 1024).await, then the code up to the next await: the
\* parse of the request and the resolution of its path
ReadToEnd(h, reqs) ==
  /\ Live(h)
  /\ h.pc = "ReadingRequest"
  /\ \E req \in reqs :
       \E parsed \in {ParseRequest(req)} :
         \E resolved \in {ResolvePath(root, parsed.path)} :
           LET g == [h EXCEPT !.req = req, !.x = parsed.x, !.path = parsed.path,
                              !.real_path = resolved.real_path]
           IN IF Len(req) > ReadLimit THEN Fail(h, h, "failed reading request")
              ELSE IF parsed.err # "none" THEN Fail(h, g, parsed.err)
              ELSE IF resolved.err # "none" THEN Fail(h, g, resolved.err)
              ELSE Step(h, [g EXCEPT !.pc = "OpenFile"])

\* read_to_end fails: the stream was reset or the connection lost
ReadFails(h) ==
  /\ Live(h)
  /\ h.pc = "ReadingRequest"
  /\ Fail(h, h, "failed reading request")

NextAfterNotFoundFallsThrough(h) == "ReadChunk"

\* the `return` that ends the Err arm of the match on File::open
NextAfterNotFound(h) == "Done"

OpenFileOrPanic(h) ==
  /\ Live(h)
  /\ h.pc = "OpenFile"
  /\ LET g == [h EXCEPT !.opens = Append(@, h.real_path)]
     IN IF Lookup(g.real_path) # "absent"
        THEN Step(h, [g EXCEPT !.pc = "ReadChunk", !.file = g.real_path,
                               !.kind = Lookup(g.real_path), !.pos = 0])
        ELSE Fail(h, g, "failed to open file")

\* tokio::fs::File::open(&real_path).await
OpenFile(h) ==
  /\ Live(h)
  /\ h.pc = "OpenFile"
  /\ LET g == [h EXCEPT !.opens = Append(@, h.real_path)]
     IN IF Lookup(g.real_path) # "absent"
        THEN Step(h, [g EXCEPT !.pc = "ReadChunk", !.file = g.real_path,
                               !.kind = Lookup(g.real_path), !.pos = 0])
        ELSE Step(h, [g EXCEPT !.pc = "NotFoundWrite"])

\* response_stream.write_all(b"HTTP/3 404 NotFound\r\n").await
NotFoundWrite(h) ==
  /\ Live(h)
  /\ h.pc = "NotFoundWrite"
  /\ Step(h, [h EXCEPT !.pc = "NotFoundFinish", !.log = WriteAll(@, NotFoundLine)])

\* write_all fails after some of the line went out
NotFoundWriteFails(h) ==
  /\ Live(h)
  /\ h.pc = "NotFoundWrite"
  /\ \E n \in FailedWriteCounts(Len(NotFoundLine)) :
       Fail(h, [h EXCEPT !.log = Emit(@, LineRun(0, n))], "failed to send response")

\* response_stream.finish().await in the Err arm, then return
NotFoundFinish(h) ==
  /\ Live(h)
  /\ h.pc = "NotFoundFinish"
  /\ Step(h, [Drop(h) EXCEPT !.pc = NextAfterNotFound(h), !.log = Append(@, FinishEvent)])

NotFoundFinishFails(h) ==
  /\ Live(h)
  /\ h.pc = "NotFoundFinish"
  /\ Fail(h, h, "failed to shutdown stream")

\* reader.read_exact(&mut buf).await: Ok(SIZE) when SIZE more bytes are there,
\* otherwise an error (UnexpectedEof; a directory cannot be read at all) and the
\* bytes read so far are dropped with the buffer
ReadExact(h) ==
  IF h.kind = "file" /\ h.pos + SIZE <= FileLength(h.file)
  THEN [ok |-> TRUE, buf |-> FileRun(h.file, h.pos, h.pos + SIZE), pos |-> h.pos + SIZE]
  ELSE [ok |-> FALSE, buf |-> NoRun, pos |-> IF h.kind = "file" THEN FileLength(h.file) ELSE 0]

\* while let Ok(len) = reader.read_exact(&mut buf).await
ReadChunk(h) ==
  /\ Live(h)
  /\ h.pc = "ReadChunk"
  /\ LET r == ReadExact(h)
     IN Step(h, [h EXCEPT !.pc = IF r.ok THEN "WriteChunk" ELSE "Finish",
                          !.buf = r.buf, !.pos = r.pos])

\* the read fails with an I/O error: the same `while let` leaves the loop
ReadChunkFails(h) ==
  /\ Live(h)
  /\ h.pc = "ReadChunk"
  /\ h.kind = "file"
  /\ Step(h, [h EXCEPT !.pc = "Finish", !.buf = NoRun, !.read_error = TRUE])

\* response_stream.write(&buf[0..len]).await, its count of bytes written ignored
WriteChunk(h) ==
  /\ Live(h)
  /\ h.pc = "WriteChunk"
  /\ \E n \in WriteCounts(h.buf.hi - h.buf.lo) :
       Step(h, [h EXCEPT !.pc = "ReadChunk",
                         !.log = Emit(@, FileRun(h.buf.file, h.buf.lo, h.buf.lo + n))])

WriteChunkFails(h) ==
  /\ Live(h)
  /\ h.pc = "WriteChunk"
  /\ Fail(h, h, "failed to response_stream response")

\* response_stream.finish().await after the loop
Finish(h) ==
  /\ Live(h)
  /\ h.pc = "Finish"
  /\ Step(h, [Drop(h) EXCEPT !.pc = "Done", !.log = Append(@, FinishEvent)])

FinishFails(h) ==
  /\ Live(h)
  /\ h.pc = "Finish"
  /\ Fail(h, h, "failed to shutdown stream")

\* one step of some handle_request task, its peer sending a request of reqs
HandleRequest(reqs) ==
  \/ \E h \in Tasks : ReadToEnd(h, reqs)
  \/ \E h \in Tasks : ReadFails(h)
  \/ \E h \in Tasks : OpenFile(h)
  \/ \E h \in Tasks : NotFoundWrite(h)
  \/ \E h \in Tasks : NotFoundWriteFails(h)
  \/ \E h \in Tasks : NotFoundFinish(h)
  \/ \E h \in Tasks : NotFoundFinishFails(h)
  \/ \E h \in Tasks : ReadChunk(h)
  \/ \E h \in Tasks : ReadChunkFails(h)
  \/ \E h \in Tasks : WriteChunk(h)
  \/ \E h \in Tasks : WriteChunkFails(h)
  \/ \E h \in Tasks : Finish(h)
  \/ \E h \in Tasks : FinishFails(h)

\* ------------------------------------------------ main and handle_connection
\* incoming.next().await yields a connection: tokio::spawn(handle_connection(..))
IncomingConnection(c) ==
  /\ Running
  /\ connTask[c] = "NotIncoming"
  /\ \A d \in 1..(c - 1) : connTask[d] # "NotIncoming"
  /\ connTask' = [connTask EXCEPT ![c] = "Connecting"]
  /\ UNCHANGED <<root, mainPc, handlers, client, mesh>>

\* incoming.next().await yields None: std::process::exit(1), which ends every task
IncomingEnds ==
  /\ Running
  /\ mainPc' = "Exited"
  /\ connTask' = [c \in Conns |-> "Returned"]
  /\ handlers' = EmptyBag
  /\ UNCHANGED <<root, client, mesh>>

\* conn.await is Ok
Established(c) ==
  /\ Running
  /\ connTask[c] = "Connecting"
  /\ connTask' = [connTask EXCEPT ![c] = "Serving"]
  /\ UNCHANGED <<root, mainPc, handlers, client, mesh>>

\* conn.await is Err: print and return
HandshakeFails(c) ==
  /\ Running
  /\ connTask[c] = "Connecting"
  /\ connTask' = [connTask EXCEPT ![c] = "Returned"]
  /\ UNCHANGED <<root, mainPc, handlers, client, mesh>>

AcceptStreamAwaits(c) ==
  /\ Running
  /\ connTask[c] = "Serving"
  /\ \A h \in Tasks : h.pc \in {"Done", "Panicked"}
  /\ BagCardinality(handlers) < MaxStreams
  /\ handlers' = handlers (+) SetToBag({NewHandler})
  /\ UNCHANGED <<root, mainPc, connTask, client, mesh>>

\* bi_streams.next().await yields Ok(stream): tokio::spawn(handle_request(..))
AcceptStream(c) ==
  /\ Running
  /\ connTask[c] = "Serving"
  /\ BagCardinality(handlers) < MaxStreams
  /\ handlers' = handlers (+) SetToBag({NewHandler})
  /\ UNCHANGED <<root, mainPc, connTask, client, mesh>>

\* bi_streams.next().await yields Err(ApplicationClosed): break
ConnectionClosed(c) ==
  /\ Running
  /\ connTask[c] = "Serving"
  /\ connTask' = [connTask EXCEPT ![c] = "Returned"]
  /\ UNCHANGED <<root, mainPc, handlers, client, mesh>>

\* bi_streams.next().await yields another Err, or None: break
ConnectionError(c) ==
  /\ Running
  /\ connTask[c] = "Serving"
  /\ connTask' = [connTask EXCEPT ![c] = "Returned"]
  /\ UNCHANGED <<root, mainPc, handlers, client, mesh>>

\* ----------------------------------------------------------- specifications
\* The server with several connections and streams, peers sending a few requests.
Init ==
  /\ root = Root
  /\ client = NoClient
  /\ mesh = NoMesh
  /\ mainPc = "Accepting"
  /\ connTask = [c \in Conns |-> "NotIncoming"]
  /\ handlers = EmptyBag

Next ==
  \/ IncomingEnds
  \/ \E c \in Conns :
       \/ IncomingConnection(c)
       \/ Established(c)
       \/ HandshakeFails(c)
       \/ AcceptStream(c)
       \/ ConnectionClosed(c)
       \/ ConnectionError(c)
  \/ HandleRequest(ConcurrentRequests)

Spec == Init /\ [][Next]_vars

\* One stream of one connection, its handler just spawned, the peer sending any
\* request of Requests.
InitRequest ==
  /\ root = Root
  /\ client = NoClient
  /\ mesh = NoMesh
  /\ mainPc = "Accepting"
  /\ connTask = [c \in Conns |-> IF c = 1 THEN "Serving" ELSE "NotIncoming"]
  /\ handlers = SetToBag({NewHandler})

NextRequest == HandleRequest(Requests)

SpecRequest == InitRequest /\ [][NextRequest]_vars

\* One stream whose peer sends any request of Requests and half-closes, with
\* nothing failing in the transport: the runtime schedules the handler whenever
\* it can run, and the peer reads what is written to it.
Respond ==
  \/ \E h \in Tasks : OpenFile(h)
  \/ \E h \in Tasks : NotFoundWrite(h)
  \/ \E h \in Tasks : NotFoundFinish(h)
  \/ \E h \in Tasks : ReadChunk(h)
  \/ \E h \in Tasks : ReadChunkFails(h)
  \/ \E h \in Tasks : WriteChunk(h)
  \/ \E h \in Tasks : Finish(h)

NextServe ==
  \/ \E h \in Tasks : ReadToEnd(h, Requests)
  \/ Respond

SpecServe == InitRequest /\ [][NextServe]_vars /\ WF_vars(Respond)

\* ------------------------------------------------ quinn-client.rs: main
\* main of the client at `endpoint.connect(..).await`, its request line built;
\* did: the calls it completed on its connection, in order; sent, fin: the
\* write side of its stream; resp: what read_to_end returned
ClientStart(url_path) ==
  [pc |-> "Connect", request |-> ClientRequest(url_path), streams |-> 0, sent |-> <<>>,
   fin |-> FALSE, resp |-> <<>>, closed |-> FALSE, did |-> <<>>]

ClientStep(pc, op, c) ==
  /\ client.pc = pc
  /\ client' = [c EXCEPT !.did = Append(@, op)]
  /\ UNCHANGED <<root, mainPc, connTask, handlers, mesh>>

ClientSkipsFinish == "ReadToEnd"

\* the await that follows tx.write_all: tx.finish()
ClientAfterWriteAll == "Finish"

\* endpoint.connect(&remote, &host).await is Ok
ClientConnect == ClientStep("Connect", "connect", [client EXCEPT !.pc = "OpenBi"])

\* connection.open_bi().await
ClientOpenBi ==
  ClientStep("OpenBi", "open_bi", [client EXCEPT !.pc = "WriteAll", !.streams = @ + 1])

\* tx.write_all(request.as_bytes()).await
ClientWriteAll ==
  ClientStep("WriteAll", "write_all",
             [client EXCEPT !.pc = ClientAfterWriteAll, !.sent = @ \o client.request])

\* tx.finish().await: the half-close, acknowledged by the peer's transport
ClientFinish ==
  ClientStep("Finish", "finish", [client EXCEPT !.pc = "ReadToEnd", !.fin = TRUE])

\* rx.read_to_end(usize::max_value()).await returns once the server's side of
\* the stream has ended: finished by its handler, or dropped by a handler that
\* panicked (the read then fails or sees the end, as the transport has it)
ClientReadToEnd ==
  \E h \in Tasks :
    /\ h.pc \in {"Done", "Panicked"}
    /\ \/ ClientStep("ReadToEnd", "read_to_end", [client EXCEPT !.pc = "Close", !.resp = h.log])
       \/ /\ h.pc = "Panicked"
          /\ ClientStep("ReadToEnd", "read_to_end", [client EXCEPT !.pc = "Panicked"])

\* connection.close(0u32.into(), b"done")
ClientClose ==
  ClientStep("Close", "close", [client EXCEPT !.pc = "WaitIdle", !.closed = TRUE])

\* endpoint.wait_idle().await, then main returns
ClientWaitIdle ==
  /\ client.closed
  /\ ClientStep("WaitIdle", "wait_idle", [client EXCEPT !.pc = "Exited"])

\* ------------------------------------------- the client against the server
\* the first frame of the client's stream has arrived: bi_streams yields it
StreamArrives ==
  /\ client.streams = 1 /\ client.sent # <<>>
  /\ handlers = EmptyBag
  /\ AcceptStream(1)

AnyInput == client.sent # <<>>

\* read_to_end on the server returns Ok when the peer has half-closed
EndOfInput == client.fin

\* the handler of the client's stream reads the request the client wrote
RequestArrives ==
  /\ EndOfInput
  /\ \E h \in Tasks : ReadToEnd(h, {client.sent})

\* the client's close reaches handle_connection as ApplicationClosed
PeerClosed ==
  /\ client.closed
  /\ ConnectionClosed(1)

\* One client and the server, nothing failing in the transport.
InitExchange ==
  /\ root = Root
  /\ mainPc = "Accepting"
  /\ connTask = [c \in Conns |-> "NotIncoming"]
  /\ handlers = EmptyBag
  /\ client \in {ClientStart(u) : u \in UrlPaths}
  /\ mesh = NoMesh

NextExchange ==
  \/ ClientConnect
  \/ ClientOpenBi
  \/ ClientWriteAll
  \/ ClientFinish
  \/ ClientReadToEnd
  \/ ClientClose
  \/ ClientWaitIdle
  \/ IncomingConnection(1)
  \/ Established(1)
  \/ StreamArrives
  \/ RequestArrives
  \/ \E h \in Tasks : OpenFile(h)
  \/ \E h \in Tasks : NotFoundWrite(h)
  \/ \E h \in Tasks : NotFoundFinish(h)
  \/ \E h \in Tasks : ReadChunk(h)
  \/ \E h \in Tasks : WriteChunk(h)
  \/ \E h \in Tasks : Finish(h)
  \/ PeerClosed

\* the runtimes of both programs schedule every task that can run, and the
\* transport delivers what was sent
SpecExchange == InitExchange /\ [][NextExchange]_vars /\ WF_vars(NextExchange)

\* ---------------------------------------------------------- qp2p.rs: main
\* The node of the peer mesh.  peers: the Vec behind peers_list; connected: the
\* peers that have a connection with the node now; incoming, disconnections:
\* the events the endpoint has queued for the two tasks; sender, sending: who
\* runs send_to_all (holding the lock on the list) and the position of its
\* loop; sends: the send_message calls of that send_to_all, each with whether
\* the disconnection of its peer had already been handled by the node.
Peers == 1..MaxPeers

NoRepeat(a) == \A i, j \in 1..Len(a) : a[i] = a[j] => i = j

\* the peers named on the command line: any peers, each once
Args == {a \in Strings(Peers, MaxPeers) : NoRepeat(a)}

\* node.connect_to(&peer) and peers_list.push(peer) for every argument, then
\* the three tasks are spawned
MeshStart(args) ==
  [pc |-> "SayHi", peers |-> args, connected |-> {args[i] : i \in 1..Len(args)},
   incoming |-> <<>>, disconnections |-> <<>>, stdin |-> "Reading",
   sender |-> "none", sending |-> 0, sends |-> <<>>]

MeshStep(m) ==
  /\ mesh.pc \in {"SayHi", "Messages"}
  /\ mesh' = m
  /\ UNCHANGED <<root, mainPc, connTask, handlers, client>>

Pending(q, p) == \E i \in 1..Len(q) : q[i] = p

\* a peer connects to the node: the endpoint queues it on incoming_conns
PeerConnects(p) ==
  /\ p \notin mesh.connected
  /\ Len(mesh.peers) + Len(mesh.incoming) + Len(mesh.disconnections) < MaxPeerList
  /\ MeshStep([mesh EXCEPT !.connected = @ \cup {p}, !.incoming = Append(@, p)])

\* a peer's connection ends: the endpoint queues it on disconnections
PeerDisconnects(p) ==
  /\ p \in mesh.connected
  /\ Len(mesh.peers) + Len(mesh.incoming) + Len(mesh.disconnections) < MaxPeerList
  /\ MeshStep([mesh EXCEPT !.connected = @ \ {p}, !.disconnections = Append(@, p)])

\* the first task: incoming_conns.next().await, then peers.lock().await.push(peer)
OnIncoming ==
  /\ mesh.incoming # <<>>
  /\ mesh.sender = "none"
  /\ MeshStep([mesh EXCEPT !.incoming = Tail(@), !.peers = Append(@, Head(mesh.incoming))])

\* the second task: disconnections.next().await, then peers.lock().await.push(peer)
OnDisconnection ==
  /\ mesh.disconnections # <<>>
  /\ mesh.sender = "none"
  /\ MeshStep([mesh EXCEPT !.disconnections = Tail(@),
                            !.peers = Append(@, Head(mesh.disconnections))])

\* send_to_all: peers.lock().await, node.lock().await
SendToAllBegins(who) ==
  /\ mesh.sender = "none"
  /\ MeshStep([mesh EXCEPT !.sender = who, !.sending = 1, !.sends = <<>>])

\* main: `if len > 0 { send_to_all(.., msg_hi) }`, then the loop over messages
MainSaysHi ==
  /\ mesh.pc = "SayHi"
  /\ IF Len(mesh.peers) > 0
     THEN SendToAllBegins("main")
     ELSE MeshStep([mesh EXCEPT !.pc = "Messages"])

\* the stdin task: stdin.read(&mut buf).await is Ok, then send_to_all
StdinSends ==
  /\ mesh.stdin = "Reading"
  /\ SendToAllBegins("stdin")

\* one turn of `for peer in peers.iter()`: send_message(msg, &peer).await is Ok
SendMessage ==
  /\ mesh.sender # "none"
  /\ mesh.sending <= Len(mesh.peers)
  /\ LET p == mesh.peers[mesh.sending]
     IN MeshStep([mesh EXCEPT
          !.sending = @ + 1,
          !.sends = Append(@, [peer |-> p,
                               gone |-> p \notin mesh.connected
                                        /\ ~Pending(mesh.disconnections, p)])])

\* send_message to a peer without a connection is Err: expect("send_to_all
\* failed") panics, in main or in the stdin task; the locks are released
SendMessageFails ==
  /\ mesh.sender # "none"
  /\ mesh.sending <= Len(mesh.peers)
  /\ mesh.peers[mesh.sending] \notin mesh.connected
  /\ IF mesh.sender = "main"
     THEN MeshStep([mesh EXCEPT !.pc = "Exited", !.sender = "none", !.sending = 0])
     ELSE MeshStep([mesh EXCEPT !.stdin = "Panicked", !.sender = "none", !.sending = 0])

\* the loop of send_to_all is over: the locks are released
SendToAllEnds ==
  /\ mesh.sender # "none"
  /\ mesh.sending = Len(mesh.peers) + 1
  /\ MeshStep([mesh EXCEPT !.sender = "none", !.sending = 0,
                            !.pc = IF mesh.sender = "main" THEN "Messages" ELSE @])

InitMesh ==
  /\ root = Root
  /\ mainPc = "Accepting"
  /\ connTask = [c \in Conns |-> "NotIncoming"]
  /\ handlers = EmptyBag
  /\ client = NoClient
  /\ mesh \in {MeshStart(args) : args \in Args}

NextMesh ==
  \/ \E p \in Peers : PeerConnects(p)
  \/ \E p \in Peers : PeerDisconnects(p)
  \/ OnIncoming
  \/ OnDisconnection
  \/ MainSaysHi
  \/ StdinSends
  \/ SendMessage
  \/ SendMessageFails
  \/ SendToAllEnds

SpecMesh == InitMesh /\ [][NextMesh]_vars

\* ------------------------------------------------- vocabulary of the claims
BeginsWith(r, pre) == Len(r) >= Len(pre) /\ \A i \in 1..Len(pre) : r[i] = pre[i]
EndsWith(r, suf) ==
  Len(r) >= Len(suf) /\ \A i \in 1..Len(suf) : r[Len(r) - Len(suf) + i] = suf[i]

\* the request grammar: `GET `, then at least the two bytes of the final CRLF
WellFramed(r) == BeginsWith(r, GET) /\ EndsWith(r, CRLF) /\ Len(r) - Len(GET) >= 2

\* the bytes strictly between `GET ` and the final CRLF
Between(r) == SubSeq(r, Len(GET) + 1, Len(r) - Len(CRLF))

\* the path of a well-framed request: its bytes up to the first space, if any
RequestPath(r) ==
  LET region == Between(r)
      n == CHOOSE k \in 0..Len(region) :
             /\ \A i \in 1..k : region[i] # SP
             /\ k = Len(region) \/ region[k + 1] = SP
  IN SubSeq(region, 1, n)

\* the maximal runs of bytes other than "/" of a path, as pairs of positions
Runs(p) ==
  {r \in (1..Len(p)) \X (1..Len(p)) :
     /\ r[1] <= r[2]
     /\ \A i \in r[1]..r[2] : p[i] # SLASH
     /\ r[1] = 1 \/ p[r[1] - 1] = SLASH
     /\ r[2] = Len(p) \/ p[r[2] + 1] = SLASH}

\* a path has a `..` component
HasParentComponent(p) == \E r \in Runs(p) : SubSeq(p, r[1], r[2]) = <<DOT, DOT>>

\* the ordinary names of a path, in the order of the path
NamesOf(p) ==
  LET names == {r \in Runs(p) : SubSeq(p, r[1], r[2]) \notin {<<DOT>>, <<DOT, DOT>>}}
      before(r) == Cardinality({q \in names : q[1] < r[1]})
  IN [k \in 1..Cardinality(names) |->
        LET r == CHOOSE q \in names : before(q) = k - 1 IN SubSeq(p, r[1], r[2])]

\* the handler read a request (its read_to_end returned Ok)
HasRequest(h) == h.pc # "ReadingRequest" /\ h.panic # "failed reading request"

\* the handler was stopped by a failure of the transport, not by its own checks
TransportPanics ==
  {"failed reading request", "failed to send response", "failed to shutdown stream",
   "failed to response_stream response"}

FramingPanics == {"missing GET", "missing \\r\\n"}
PathPanics == {"Utf8Error", "path must be absolute", "illegal component in path"}

\* the file a handler served: the one path it opened, an existing file
Served(h) == Len(h.opens) = 1 /\ Lookup(h.opens[1]) = "file"

\* the whole of file f, written and then finished
WholeFile(f) == Emit(<<>>, FileRun(f, 0, FileLength(f))) \o <<FinishEvent>>

\* the bytes of a log of status-line writes
RECURSIVE LineBytes(_)
LineBytes(log) ==
  IF log = <<>> THEN <<>>
  ELSE IF Head(log).kind = "line"
       THEN SubSeq(NotFoundLine, Head(log).lo + 1, Head(log).hi) \o LineBytes(Tail(log))
       ELSE LineBytes(Tail(log))

Kinds(log) == {log[i].kind : i \in 1..Len(log)}
Finishes(log) == Cardinality({i \in 1..Len(log) : log[i].kind = "finish"})

\* ------------------------------------------------------------------ claims
\* C1: a handler that served an existing file without a read error wrote, when
\* it is done, exactly the bytes 0 .. L-1 of that file in order and then
\* finished the stream.
C1_ServesWholeFile ==
  \A h \in Tasks :
    (h.pc = "Done" /\ Served(h) /\ ~h.read_error) => h.log = WholeFile(h.opens[1])

\* C2: when the resolved path cannot be opened, the handler writes exactly
\* `HTTP/3 404 NotFound` CRLF, finishes the stream and returns; it stops early
\* only when the transport fails.
C2_NotFoundLineOnly ==
  \A h \in Tasks :
    (Len(h.opens) = 1 /\ Lookup(h.opens[1]) = "absent") =>
      /\ h.pc \in {"NotFoundWrite", "NotFoundFinish", "Done", "Panicked"}
      /\ h.pc = "Panicked" => h.panic \in TransportPanics
      /\ h.pc = "NotFoundWrite" => h.log = <<>>
      /\ h.pc \in {"NotFoundFinish", "Done"} =>
           LineBytes(h.log) =
             <<"H", "T", "T", "P", "/", "3", " ", "4", "0", "4", " ",
               "N", "o", "t", "F", "o", "u", "n", "d", "\r", "\n">>
      /\ h.pc = "NotFoundFinish" => Kinds(h.log) = {"line"}
      /\ h.pc = "Done" => Kinds(h.log) = {"line", "finish"} /\ Finishes(h.log) = 1
                          /\ h.log[Len(h.log)] = FinishEvent

C2_Witness ==
  \E h \in Tasks :
    /\ h.pc = "Done"
    /\ Len(h.opens) = 1 /\ Lookup(h.opens[1]) = "absent"
    /\ h.log = <<LineRun(0, 21), FinishEvent>>

\* C3: a request whose path has a `..` component is rejected and no file open
\* ever happens on its stream.
C3_ParentRejected ==
  \A h \in Tasks :
    (HasRequest(h) /\ WellFramed(h.req) /\ HasParentComponent(RequestPath(h.req))) =>
      h.pc = "Panicked" /\ h.panic \in PathPanics /\ h.opens = <<>>

C3_Witness ==
  \E h \in Tasks :
    /\ h.req = GET \o <<SLASH, "a", SLASH, DOT, DOT>> \o CRLF
    /\ h.pc = "Panicked" /\ h.panic = "illegal component in path" /\ h.opens = <<>>

\* C4: a request whose path does not start with "/" (the empty path too) is
\* rejected and no file open ever happens on its stream.
C4_RelativeRejected ==
  \A h \in Tasks :
    (HasRequest(h) /\ WellFramed(h.req) /\ ~BeginsWith(RequestPath(h.req), <<SLASH>>)) =>
      h.pc = "Panicked" /\ h.panic \in PathPanics /\ h.opens = <<>>

C4_Witness ==
  \E h \in Tasks :
    /\ h.req \in {GET \o CRLF, GET \o <<"a", SLASH, "a">> \o CRLF}
    /\ h.pc = "Panicked" /\ h.panic = "path must be absolute" /\ h.opens = <<>>

\* C5: every path given to File::open is the served root followed by the
\* ordinary names of the request path in their order, so it lies under the
\* root; the served root never changes.
C5_OpensUnderRoot ==
  /\ root = Root
  /\ \A h \in Tasks :
       /\ Len(h.opens) <= 1
       /\ \A i \in 1..Len(h.opens) :
            /\ h.opens[i] = Root \o NamesOf(RequestPath(h.req))
            /\ BeginsWith(h.opens[i], Root)
            /\ \A k \in 1..Len(h.opens[i]) :
                 /\ h.opens[i][k] # <<DOT, DOT>>
                 /\ \A j \in 1..Len(h.opens[i][k]) : h.opens[i][k][j] # SLASH

C5_Witness ==
  \E h \in Tasks :
    /\ h.req = GET \o <<SLASH, "a", SLASH, DOT, "a">> \o CRLF
    /\ h.opens = <<Root \o << <<"a">>, <<DOT, "a">> >> >>

\* C6: with streams handled concurrently, each asking for a different existing
\* file, every stream that is done carries exactly the bytes of its own file.
C6_ConcurrentStreamsWholeFiles ==
  \A h1, h2 \in Tasks :
    (/\ h1.pc = "Done" /\ Served(h1) /\ ~h1.read_error
     /\ h2.pc = "Done" /\ Served(h2) /\ ~h2.read_error
     /\ h1.opens # h2.opens) =>
      h1.log = WholeFile(h1.opens[1]) /\ h2.log = WholeFile(h2.opens[1])

\* C7: the parser rejects a request exactly when it does not begin with `GET `,
\* does not end with CRLF or has fewer than 2 bytes after `GET `; otherwise the
\* path region is the bytes strictly between `GET ` and the final CRLF.
C7_ParserRejectsExactly ==
  \A h \in Tasks :
    HasRequest(h) =>
      /\ (h.pc = "Panicked" /\ h.panic \in FramingPanics) <=> ~WellFramed(h.req)
      /\ WellFramed(h.req) => h.x = Between(h.req)

C7_Witness ==
  \E h \in Tasks :
    /\ h.req = GET \o <<SLASH, "a", SP, "a">> \o CRLF
    /\ h.x = <<SLASH, "a", SP, "a">>
    /\ h.panic = "none"

\* C8: of a request `GET ` p ` ` t CRLF with no space in p the server takes p
\* as the path and ignores t; the line the client sends, `GET <url path> HTTP/3`
\* CRLF, is accepted and resolved as the URL path.
C8_TrailingTokenIgnored ==
  \A h \in Tasks :
    HasRequest(h) =>
      /\ \A k \in (Len(GET) + 1)..(Len(h.req) - Len(CRLF)) :
           (/\ WellFramed(h.req)
            /\ h.req[k] = SP
            /\ \A j \in (Len(GET) + 1)..(k - 1) : h.req[j] # SP) =>
             LET p == SubSeq(h.req, Len(GET) + 1, k - 1)
             IN /\ h.panic \notin FramingPanics
                /\ ValidUtf8(p) =>
                     /\ h.path = p
                     /\ h.panic # "Utf8Error"
                     /\ h.opens \in {<<>>, <<Root \o NamesOf(p)>>}
      /\ \A u \in UrlPaths :
           h.req = ClientRequest(u) =>
             /\ h.path = u
             /\ h.panic \notin FramingPanics \cup PathPanics
             /\ IF h.pc = "OpenFile" THEN h.opens = <<>>
                ELSE h.opens = <<Root \o NamesOf(u)>>

C8_Witness ==
  \E h \in Tasks :
    /\ h.req = <<"G", "E", "T", " ", "/", "a", "a", " ", "H", "T", "T", "P", "/", "3", "\r", "\n">>
    /\ h.path = <<SLASH, "a", "a">>
    /\ h.opens = <<FileOne>>
    /\ h.pc = "Done"

\* C9: a handler writes the not-found line or file bytes, never both; it
\* finishes the write side at most once, writes nothing after that, and has
\* finished exactly once when it is done.
C9_OneStatus ==
  \A h \in Tasks :
    /\ ~({"line", "file"} \subseteq Kinds(h.log))
    /\ Finishes(h.log) <= 1
    /\ \A i \in 1..Len(h.log) : h.log[i].kind = "finish" => i = Len(h.log)
    /\ h.pc = "Done" => Finishes(h.log) = 1

C9_Witness ==
  /\ \E h \in Tasks : h.pc = "Done" /\ h.log = <<LineRun(0, Len(NotFoundLine)), FinishEvent>>
  /\ \E h \in Tasks : h.pc = "Done" /\ h.log = <<FileRun(FileChunk, 0, SIZE), FinishEvent>>

\* C10: a step in which one handle_request task fails changes that task only,
\* and so does a step in which one handle_connection task returns: main goes
\* on accepting, every other task keeps its state, and every task that has not
\* ended can take its next step.
Terminal == {"Done", "Panicked"}

TaskFails ==
  \E h \in Tasks, g \in BagToSet(handlers') :
    h.pc \notin Terminal /\ g.pc = "Panicked" /\ handlers' = Replace(h, g)

StepOf(h) ==
  \/ ReadToEnd(h, ConcurrentRequests) \/ ReadFails(h) \/ OpenFile(h)
  \/ NotFoundWrite(h) \/ NotFoundWriteFails(h) \/ NotFoundFinish(h)
  \/ NotFoundFinishFails(h) \/ ReadChunk(h) \/ ReadChunkFails(h)
  \/ WriteChunk(h) \/ WriteChunkFails(h) \/ Finish(h) \/ FinishFails(h)

C10_FailureIsolated ==
  /\ [](\A h \in Tasks : (Running /\ h.pc \notin Terminal) => ENABLED StepOf(h))
  /\ [][/\ TaskFails => mainPc' = mainPc /\ connTask' = connTask
        /\ \A c \in Conns :
             (connTask[c] \in {"Connecting", "Serving"} /\ connTask'[c] = "Returned") =>
               \/ IncomingEnds
               \/ /\ handlers' = handlers
                  /\ mainPc' = mainPc
                  /\ \A d \in Conns \ {c} : connTask'[d] = connTask[d]]_vars

C10_Witness ==
  /\ Running
  /\ \E c, d \in Conns : connTask[c] = "Returned" /\ connTask[d] = "Serving"
  /\ \E h, g \in Tasks :
       /\ h.pc = "Panicked"
       /\ g.pc = "WriteChunk"

\* C11: the bytes a handler writes are bytes of the file it opened or the bytes
\* of the not-found line from its first byte on, nothing else; a handler whose
\* request was rejected (framing, path) or whose read of the request failed
\* wrote nothing and did not finish the stream.
RejectPanics == FramingPanics \cup PathPanics \cup {"failed reading request"}

C11_RejectedWritesNothing ==
  \A h \in Tasks :
    /\ \A i \in 1..Len(h.log) :
         \/ h.log[i].kind = "finish"
         \/ /\ h.log[i].kind = "line"
            /\ i = 1 /\ h.log[i].lo = 0 /\ h.log[i].hi <= Len(NotFoundLine)
            /\ Len(h.opens) = 1 /\ Lookup(h.opens[1]) = "absent"
         \/ /\ h.log[i].kind = "file"
            /\ h.opens = <<h.log[i].file>>
            /\ h.log[i].hi <= FileLength(h.log[i].file)
    /\ (h.pc = "Panicked" /\ h.panic \in RejectPanics) => h.log = <<>>
    /\ (h.pc = "ReadingRequest" \/ ~HasRequest(h)) => h.log = <<>>
    /\ (HasRequest(h) /\ (~WellFramed(h.req) \/ ~ValidUtf8(RequestPath(h.req)))) =>
         h.pc = "Panicked" /\ h.log = <<>>

C11_Witness ==
  \E h \in Tasks :
    /\ h.req = GET \o <<SLASH, BADBYTE>> \o CRLF
    /\ h.pc = "Panicked" /\ h.panic = "Utf8Error" /\ h.log = <<>> /\ h.opens = <<>>

\* a path has a `.` component
HasCurDirComponent(p) == \E r \in Runs(p) : SubSeq(p, r[1], r[2]) = <<DOT>>

\* C12 as stated: a request whose absolute path has a `.` component after the
\* root is rejected as an illegal path and no file open happens on its stream.
C12_CurDirRejected ==
  \A h \in Tasks :
    (/\ HasRequest(h) /\ WellFramed(h.req)
     /\ BeginsWith(RequestPath(h.req), <<SLASH>>)
     /\ HasCurDirComponent(RequestPath(h.req))) =>
      h.pc = "Panicked" /\ h.panic \in PathPanics /\ h.opens = <<>>

\* C12 amended: a `.` component after the root is dropped when the path is
\* split: a request whose absolute path has one is rejected as an illegal path
\* exactly when the path also has a `..` component, and otherwise resolves to
\* the root followed by its ordinary names, which is the only path it opens.
C12_CurDirSkipped ==
  \A h \in Tasks :
    (/\ HasRequest(h) /\ WellFramed(h.req)
     /\ ValidUtf8(RequestPath(h.req))
     /\ BeginsWith(RequestPath(h.req), <<SLASH>>)
     /\ HasCurDirComponent(RequestPath(h.req))) =>
      /\ h.panic \notin {"path must be absolute", "Utf8Error"} \cup FramingPanics
      /\ h.panic = "illegal component in path" <=> HasParentComponent(RequestPath(h.req))
      /\ h.panic = "illegal component in path" => h.opens = <<>>
      /\ h.panic # "illegal component in path" =>
           /\ h.real_path = Root \o NamesOf(RequestPath(h.req))
           /\ h.opens = IF h.pc = "OpenFile" THEN <<>> ELSE <<h.real_path>>

C12_Witness ==
  \E h \in Tasks :
    /\ h.req = GET \o <<SLASH, DOT, SLASH, "a">> \o CRLF
    /\ h.opens = <<FileEmpty>>
    /\ h.pc = "Done" /\ h.log = <<FinishEvent>>

\* C13: once a read of the opened file has failed with an I/O error the handler
\* writes no further chunk and never finishes the stream, so a stream that was
\* finished after serving a file carries the whole of that file.
C13_ReadErrorLeavesUnfinished ==
  \A h \in Tasks :
    /\ h.read_error =>
         /\ h.pc \notin {"ReadChunk", "WriteChunk", "Done"}
         /\ Finishes(h.log) = 0
    /\ (h.read_error /\ Served(h) /\ Finishes(h.log) > 0) => h.log = WholeFile(h.opens[1])

\* the checks of the handler stopped it: framing, UTF-8 or path
Rejected(h) == h.pc = "Panicked" /\ h.panic \in FramingPanics \cup PathPanics

\* the request is the line the client builds for some URL path
IsClientRequest(r) == \E u \in UrlPaths : r = ClientRequest(u)

\* C14 as stated: the line the client sends is rejected, and a request that is
\* not rejected is exactly `GET `, a path without a space, CRLF.
C14_ClientLineRejected ==
  \A h \in Tasks :
    HasRequest(h) =>
      /\ IsClientRequest(h.req) => Rejected(h)
      /\ ~Rejected(h) => \A i \in 1..Len(Between(h.req)) : Between(h.req)[i] # SP

\* C14 amended: the line the client sends is accepted, its path the URL path;
\* whether a request is rejected depends on its framing and on the bytes up to
\* the first space after `GET ` only, whatever follows that space.
C14_ClientLineAccepted ==
  \A h \in Tasks :
    HasRequest(h) =>
      /\ \A u \in UrlPaths :
           h.req = ClientRequest(u) =>
             /\ ~Rejected(h)
             /\ h.x = u \o <<SP>> \o HTTP3
             /\ h.path = u
             /\ h.real_path = Root \o NamesOf(u)
      /\ Rejected(h) <=>
           \/ ~WellFramed(h.req)
           \/ ~ValidUtf8(RequestPath(h.req))
           \/ ~BeginsWith(RequestPath(h.req), <<SLASH>>)
           \/ HasParentComponent(RequestPath(h.req))

C14_Witness ==
  \E h \in Tasks :
    /\ h.req = ClientRequest(<<SLASH, "a">>)
    /\ h.path = <<SLASH, "a">>
    /\ h.opens = <<FileEmpty>>
    /\ h.pc = "Done"

\* C15 as stated: once a handler has rejected its request the server is dead:
\* no connection or stream is accepted and no handler takes a step any more.
C15_RejectionStopsServer ==
  [][(\E h \in Tasks : Rejected(h)) => (handlers' = handlers /\ connTask' = connTask)]_vars

\* C15 amended: a rejection ends the task of that stream only.  The step that
\* rejects a request changes nothing but that task; while a rejected handler
\* exists and main has not returned from its accept loop, main can accept the
\* next connection, every serving connection can accept the next stream and
\* every other handler that has not ended can take its next step; main leaves
\* its loop only when the endpoint yields no more connections.
Rejects ==
  \E h \in Tasks, g \in BagToSet(handlers') :
    h.pc = "ReadingRequest" /\ Rejected(g) /\ handlers' = Replace(h, g)

C15_RejectionIsTaskLocal ==
  /\ []((Running /\ \E h \in Tasks : Rejected(h)) =>
         /\ \A c \in Conns :
              /\ (connTask[c] = "NotIncoming" /\ \A d \in 1..(c - 1) : connTask[d] # "NotIncoming")
                   => ENABLED IncomingConnection(c)
              /\ (connTask[c] = "Serving" /\ BagCardinality(handlers) < MaxStreams)
                   => ENABLED AcceptStream(c)
         /\ \A g \in Tasks : g.pc \notin Terminal => ENABLED StepOf(g))
  /\ [][/\ Rejects => (mainPc' = mainPc /\ connTask' = connTask)
        /\ mainPc' # mainPc => IncomingEnds
        /\ (\E h \in Tasks : Rejected(h)) => (mainPc' = mainPc \/ IncomingEnds)]_vars

C15_Witness ==
  /\ Running
  /\ \E c \in Conns : connTask[c] = "Connecting"
  /\ \E h, g \in Tasks :
       /\ Rejected(h) /\ h.panic = "illegal component in path"
       /\ g.pc = "Done" /\ g.log = <<FileRun(FileChunk, 0, SIZE), FinishEvent>>

\* C16: whatever the handlers are doing, a serving handle_connection can accept
\* and spawn the next stream and main can accept the next connection (within
\* the bounds on streams and connections); a handle_connection that was serving
\* stops, while the process runs, only by the transport reporting the
\* connection closed or an error, and no step that spawns a task changes a
\* handler already running.
C16_AcceptNeverWaits ==
  /\ [](Running =>
         \A c \in Conns :
           /\ (connTask[c] = "Serving" /\ BagCardinality(handlers) < MaxStreams)
                => ENABLED AcceptStream(c)
           /\ (connTask[c] = "NotIncoming" /\ \A d \in 1..(c - 1) : connTask[d] # "NotIncoming")
                => ENABLED IncomingConnection(c))
  /\ [][\A c \in Conns :
          /\ (connTask[c] = "Serving" /\ connTask'[c] # "Serving" /\ mainPc' = "Accepting") =>
               (ConnectionClosed(c) \/ ConnectionError(c))
          /\ (AcceptStream(c) \/ IncomingConnection(c)) =>
               \A h \in Tasks : BagIn(h, handlers')]_vars

C16_Witness ==
  /\ Running
  /\ \A c \in Conns : connTask[c] = "Serving"
  /\ BagCardinality(handlers) >= 2
  /\ \A h \in Tasks : h.pc = "ReadingRequest"

\* C17: a handler in its read step has parsed nothing, resolved nothing, opened
\* no file and written nothing; as long as the peer has not half-closed its
\* side of the stream (and the transport reports no error) the handler is in
\* its read step, and what it reads is everything the peer sent.
C17_NothingBeforeEndOfInput ==
  \A h \in Tasks :
    /\ h.pc = "ReadingRequest" =>
         /\ h.req = <<>> /\ h.x = <<>> /\ h.path = <<>> /\ h.real_path = <<>>
         /\ h.opens = <<>> /\ h.file = NoFile /\ h.log = <<>>
    /\ ~client.fin => h.pc = "ReadingRequest"
    /\ h.pc # "ReadingRequest" => h.req = client.request /\ client.sent = client.request

C17_Witness ==
  /\ client.sent # <<>>
  /\ ~client.fin
  /\ \E h \in Tasks : h.pc = "ReadingRequest"

\* the request passes every check of the handler
Legal(r) ==
  /\ WellFramed(r) /\ ValidUtf8(RequestPath(r))
  /\ BeginsWith(RequestPath(r), <<SLASH>>)
  /\ ~HasParentComponent(RequestPath(r))

\* the states of a stream: ReadingRequest, Responding (from the open of the
\* file to the finish), Done, Rejected; Parsed and Resolving are passed inside
\* the step that leaves ReadingRequest, which has no await between them
Stage(h) ==
  CASE h.pc = "ReadingRequest" -> "ReadingRequest"
    [] h.pc \in {"OpenFile", "NotFoundWrite", "NotFoundFinish", "ReadChunk", "WriteChunk", "Finish"}
         -> "Responding"
    [] h.pc = "Done" -> "Done"
    [] Rejected(h) -> "Rejected"
    [] OTHER -> "Failed"

Parsed(h) == h.x = Between(h.req) /\ h.path = RequestPath(h.req)
Resolved(h) == h.real_path = Root \o NamesOf(h.path)

StageOrder ==
  {<<"ReadingRequest", "Responding">>, <<"ReadingRequest", "Rejected">>,
   <<"Responding", "Responding">>, <<"Responding", "Done">>}

\* C18: with the handler scheduled fairly and nothing failing in the transport,
\* a stream whose request is well-formed with a legal path reaches Done with its
\* write side finished once, whether the file exists or not; its handler goes
\* from ReadingRequest to Responding to Done, and when it is Responding or Done
\* the request is parsed and the parsed path is resolved.  A request that is
\* not legal ends Rejected: its handler opened and wrote nothing and takes no
\* further step.
C18_LegalRequestReachesDone ==
  /\ (\E h \in Tasks : HasRequest(h) /\ Legal(h.req))
       ~> (\A h \in Tasks : h.pc = "Done" /\ Finishes(h.log) = 1)
  /\ [](\A h \in Tasks :
          /\ Stage(h) \in {"ReadingRequest", "Responding", "Done", "Rejected"}
          /\ Stage(h) \in {"Responding", "Done"} => Legal(h.req) /\ Parsed(h) /\ Resolved(h)
          /\ Stage(h) = "Rejected" =>
               /\ ~Legal(h.req) /\ h.opens = <<>> /\ h.log = <<>>
               /\ h.panic \in PathPanics \ {"Utf8Error"} => Parsed(h) /\ h.real_path = <<>>
          /\ (HasRequest(h) /\ ~Legal(h.req)) => Stage(h) = "Rejected")
  /\ [][\A h \in Tasks, g \in BagToSet(handlers') :
          h # g => <<Stage(h), Stage(g)>> \in StageOrder]_vars

C18_Witness ==
  \E h \in Tasks :
    /\ h.req = GET \o <<SLASH, DOT, "a">> \o CRLF
    /\ h.pc = "Done"
    /\ h.log = <<FileRun(FileSeveral, 0, Several * SIZE), FinishEvent>>

\* the calls of the client on its connection, in the order of its main
ClientOrder == <<"connect", "open_bi", "write_all", "finish", "read_to_end", "close", "wait_idle">>

Did(op) == \E i \in 1..Len(client.did) : client.did[i] = op

\* C19: what the client has done is always a prefix of connect, open_bi,
\* write_all, finish, read_to_end, close, wait_idle: one stream, one request
\* written whole, the half-close before the read, the close only after the
\* response was read to the end of the stream its handler finished, the wait
\* for idle only after the close.  With fair scheduling and no transport
\* failure the exchange completes: the client exits after all seven calls, the
\* handler of its stream is done and handle_connection has returned.
C19_ClientOrderCompletes ==
  /\ [](/\ Len(client.did) <= Len(ClientOrder)
        /\ client.did = SubSeq(ClientOrder, 1, Len(client.did))
        /\ client.streams = (IF Did("open_bi") THEN 1 ELSE 0)
        /\ client.sent = (IF Did("write_all") THEN client.request ELSE <<>>)
        /\ client.fin <=> Did("finish")
        /\ client.closed <=> Did("close")
        /\ Did("read_to_end") =>
             /\ client.fin
             /\ \A h \in Tasks : h.pc = "Done" /\ client.resp = h.log
             /\ client.resp # <<>> /\ client.resp[Len(client.resp)] = FinishEvent
        /\ BagCardinality(handlers) <= 1
        /\ client.pc = "Exited" <=> client.did = ClientOrder)
  /\ <>(/\ client.pc = "Exited"
        /\ \A h \in Tasks : h.pc = "Done"
        /\ connTask[1] = "Returned")

C19_Witness ==
  /\ client.pc = "Exited"
  /\ client.did = ClientOrder
  /\ client.request = ClientRequest(<<SLASH, "a", DOT, "a">>)
  /\ client.resp = <<FileRun(FileChunk, 0, SIZE), FinishEvent>>
  /\ connTask[1] = "Returned"

\* the number of times peer p is in the list
Occurrences(list, p) == Cardinality({i \in 1..Len(list) : list[i] = p})

\* C20: when the node has handled every connection and disconnection event,
\* its peer list holds each connected peer once and no other peer; and
\* send_to_all never sends to a peer whose disconnection the node has handled.
C20_PeerListIsConnected ==
  /\ (mesh.incoming = <<>> /\ mesh.disconnections = <<>>) =>
       \A p \in Peers : Occurrences(mesh.peers, p) = (IF p \in mesh.connected THEN 1 ELSE 0)
  /\ \A i \in 1..Len(mesh.sends) : ~mesh.sends[i].gone

====
